---- MODULE Spec2Model ----
(***************************************************************************)
(* A model of the gokeycloak REST client: the user family (user.go), the   *)
(* realm-role family and the requesting-party family.  Every public method *)
(* builds one HTTP request from its arguments, hands it to the HTTP layer, *)
(* and turns the response (or the transport failure) into its return       *)
(* values.  A call is modelled in two steps, Invoke (up to the moment the  *)
(* request is on the wire) and Receive (from the HTTP layer's answer to    *)
(* the return), so that calls made concurrently on one client interleave.  *)
(***************************************************************************)
EXTENDS Integers, Sequences, FiniteSets, TLC

VARIABLES g, calls, ncalls, failed

vars == <<g, calls, ncalls, failed>>

\* ---------------------------------------------------------------- bounds
\* Number of invocations in one run.
MaxCalls == 3

\* The concurrent callers of the one client.
Slots == {"c1", "c2"}

\* ---------------------------------------------------------------- values
\* A nil pointer, a nil slice, an absent optional field.
Nil == "<nil>"

\* A nil error.  An error is the chain of its messages, outermost first.
NilErr == <<>>

\* errors.New
New(msg) == <<msg>>

\* errors.Wrap: one more description in front of the chain; nil for a nil
\* error.
Wrap(err, msg) == IF err = NilErr THEN NilErr ELSE <<msg>> \o err

StatusBadRequest == 400

StatusInternalServerError == 500

\* ------------------------------------------------------------ the client
\* The client after construction: the base path, the path constants of the
\* configuration, and the shared HTTP client with no client-wide token.
G0 ==
  [ basePath    |-> "http://kc",
    Config      |-> [ authAdminRealms |-> "admin/realms",
                      authRealms      |-> "realms",
                      openIDConnect   |-> "protocol/openid-connect" ],
    restyClient |-> [ Token |-> "" ] ]

\* URLs are kept as the sequence of the parts that are joined with "/".
getRealmURL(gk, realm, path) ==
  <<gk.basePath, gk.Config.authRealms, realm>> \o path

getAdminRealmURL(gk, realm, path) ==
  <<gk.basePath, gk.Config.authAdminRealms, realm>> \o path

\* A fresh request of the shared HTTP client carrying the bearer token.
GetRequestWithBearerAuth(gk, token) ==
  [ token |-> token, verb |-> Nil, url |-> <<>>,
    body |-> <<>>, query |-> {}, form |-> << >>, result |-> FALSE ]

SetBody(req, body) == [req EXCEPT !.body = <<body>>]

SetResult(req) == [req EXCEPT !.result = TRUE]

SetQueryParams(req, q) == [req EXCEPT !.query = @ \cup q]

\* The form data of a request are url.Values: for each key the sequence of
\* its values.  SetFormData sets the one value of each key of the map.
SetFormData(req, f) ==
  LET old == req.form
  IN  [req EXCEPT !.form =
        [k \in DOMAIN old \cup DOMAIN f |->
          IF k \in DOMAIN f THEN <<f[k]>> ELSE old[k]]]

\* SetFormDataFromValues adds every value of the key, in order, to the
\* values the key has; no value, no key.
SetFormDataFromValues(req, key, values) ==
  LET old == req.form
      had == IF key \in DOMAIN old THEN old[key] ELSE << >>
  IN  IF values = << >> THEN req
      ELSE [req EXCEPT !.form =
             [k \in DOMAIN old \cup {key} |->
               IF k = key THEN had \o values ELSE old[k]]]

Get(req, url) == [req EXCEPT !.verb = "GET", !.url = url]

Post(req, url) == [req EXCEPT !.verb = "POST", !.url = url]

Put(req, url) == [req EXCEPT !.verb = "PUT", !.url = url]

Delete(req, url) == [req EXCEPT !.verb = "DELETE", !.url = url]

\* The request as it leaves the HTTP client: a request without a token of
\* its own carries the client-wide token.
OnWire(gk, req) ==
  [req EXCEPT !.token = IF @ = "" THEN gk.restyClient.Token ELSE @]

\* -------------------------------------------------------- the HTTP layer
\* What one HTTP call yields: a response and an error.  On a transport
\* failure the response is either an empty one (status 0) or no response
\* object at all, depending on where in the HTTP client the failure arose.
NoResponse == [nil |-> TRUE, status |-> 0, body |-> "", location |-> <<>>]

EmptyResponse == [nil |-> FALSE, status |-> 0, body |-> "", location |-> <<>>]

Statuses == {200, 304, 404}

Bodies == {"d1", "d2"}

IsSuccess(status) == status > 199 /\ status < 300

Response(status, body) ==
  [ nil |-> FALSE, status |-> status, body |-> body,
    location |-> IF IsSuccess(status)
                   THEN <<"http://kc", "admin/realms", "r", "x", body>>
                   ELSE <<>> ]

TransportErr == New("transport failure")

Outcome ==
  { [resp |-> Response(200, b), err |-> NilErr] : b \in Bodies }
    \cup { [resp |-> Response(s, "error body"), err |-> NilErr] : s \in Statuses \ {200} }
    \cup { [resp |-> EmptyResponse, err |-> TransportErr],
           [resp |-> NoResponse, err |-> TransportErr] }

\* A transport failure.
IsTransportFailure(o) == o.err # NilErr

\* A response was received, with a status that is not a success.
IsFailureStatus(o) == o.err = NilErr /\ ~IsSuccess(o.resp.status)

\* resp.StatusCode(): the status of the response; the method reads a field
\* of its receiver, so it panics on a nil response.
StatusCode(resp) == [panic |-> resp.nil, code |-> resp.status]

\* A status the operation states itself.
Lit(code) == [panic |-> FALSE, code |-> code]

\* The error of a failed call, nil for a success: a transport failure or a
\* status that is not a success, wrapped with the description of the call.
checkForError(resp, err, errMessage) ==
  IF err # NilErr THEN Wrap(err, errMessage)
  ELSE IF ~IsSuccess(resp.status) THEN Wrap(New(resp.body), errMessage)
  ELSE NilErr

\* The identifier of a created resource: the last part of the Location.
getID(resp) ==
  IF resp.location = <<>> THEN "" ELSE resp.location[Len(resp.location)]

\* The result the HTTP client decodes from a successful response.
Decode(resp) == resp.body

\* ---------------------------------------------------------- return values
\* The values of a return statement; evaluating a panicking expression in
\* it ends the call with the panic instead.  `again` tells that the call
\* does not return yet but sends its request once more; no operation of
\* the client does.
Ret(sc, result, err) ==
  IF sc.panic
    THEN [panic |-> TRUE, status |-> 0, result |-> Nil, err |-> NilErr,
          again |-> FALSE]
    ELSE [panic |-> FALSE, status |-> sc.code, result |-> result, err |-> err,
          again |-> FALSE]

NoReturn ==
  [panic |-> FALSE, status |-> 0, result |-> Nil, err |-> NilErr, again |-> FALSE]

\* A call that sends one request and returns what `return` makes of the
\* outcome; it leaves the client and the caller's arguments as they were.
Do(gk, a, errMessage, req, return) ==
  [ errMessage |-> errMessage, client |-> gk, caller |-> a,
    sends |-> <<req>>, early |-> FALSE, earlyRet |-> NoReturn,
    return |-> return ]

\* A call that returns before any request is sent.
Early(gk, a, errMessage, ret) ==
  [ errMessage |-> errMessage, client |-> gk, caller |-> a,
    sends |-> <<>>, early |-> TRUE, earlyRet |-> ret,
    return |-> [o \in Outcome |-> ret] ]

\* ------------------------------------------------------------- arguments
\* PString: the string a pointer refers to, "" for a nil pointer.
PString(p) == IF p = Nil THEN "" ELSE p

\* StringP: a pointer to the string.
StringP(s) == s

\* PStringSlice: the slice a pointer refers to, nil for a nil pointer.
\* NilSlice stands for the nil pointer to a slice.
NilSlice == <<Nil>>

PStringSlice(p) == IF p = NilSlice THEN <<>> ELSE p

\* A field value the query-string conversion cannot encode.
NotEncodable == "<not encodable>"

\* GetQueryParams: the fields that are present, as a string map; an error
\* when the conversion of the struct fails.
GetQueryParams(params) ==
  IF \E k \in DOMAIN params : params[k] = NotEncodable
    THEN [q |-> {}, err |-> New("cannot convert query params")]
    ELSE [q |-> { <<k, params[k]>> : k \in { f \in DOMAIN params : params[f] # Nil } },
          err |-> NilErr]

\* The arguments of one call: a value for every parameter name the
\* operations have.  Each operation reads the parameters of its signature.
Args1 ==
  [ token |-> "t1", accessToken |-> "t1", userToken |-> "t1", realm |-> "r1",
    userID |-> "u1", groupID |-> "g1", roleName |-> "rn1", roleID |-> "ri1",
    idOfClient |-> "cl1", providerID |-> "idp1", password |-> "pw1",
    temporary |-> TRUE,
    user |-> [ID |-> "u1", Username |-> "name1"],
    role |-> [Name |-> "role1"],
    roles |-> << [Name |-> "role1"] >>,
    federatedIdentityRep |-> [IdentityProvider |-> "idp1", UserID |-> "fu1"],
    params |-> [Max |-> Nil, Search |-> "s1"],
    options |-> [GrantType |-> Nil, Audience |-> "aud1",
                 ResponseMode |-> "rm1",
                 Permissions |-> <<"perm1", "perm1b", "perm1">>],
    audience |-> "aud1", response_mode |-> "rm1", permissions |-> <<"perm1">> ]

Args2 ==
  [ token |-> "t2", accessToken |-> "t2", userToken |-> "t2", realm |-> "r2",
    userID |-> "u2", groupID |-> "g2", roleName |-> "rn2", roleID |-> "ri2",
    idOfClient |-> "cl2", providerID |-> "idp2", password |-> "pw2",
    temporary |-> FALSE,
    user |-> [ID |-> Nil, Username |-> "name2"],
    role |-> [Name |-> "role2"],
    roles |-> << >>,
    federatedIdentityRep |-> [IdentityProvider |-> "idp2", UserID |-> "fu2"],
    params |-> [Max |-> "10", Search |-> Nil],
    options |-> [GrantType |-> "gt2", Audience |-> Nil,
                 ResponseMode |-> Nil, Permissions |-> NilSlice],
    audience |-> "aud2", response_mode |-> "rm2", permissions |-> << >> ]

\* The empty user ID and parameters that cannot be converted.
ArgsE ==
  [ Args1 EXCEPT !.userID = "", !.params = [Max |-> NotEncodable, Search |-> Nil] ]

\* The parameter names themselves, which make a URL its path template.
ArgsT ==
  [ Args1 EXCEPT !.realm = "{realm}", !.userID = "{userID}",
      !.groupID = "{groupID}", !.roleName = "{roleName}",
      !.roleID = "{roleID}", !.idOfClient = "{idOfClient}",
      !.providerID = "{providerID}", !.user = [ID |-> "{user.ID}", Username |-> "n"] ]

Bundles == {"1", "2", "E"}

Args(b) == CASE b = "1" -> Args1 [] b = "2" -> Args2 [] b = "E" -> ArgsE

\* ----------------------------------------------------------------- users
\* Fault variant of CreateUser: the request is sent again after a
\* non-success status.
CreateUser_Retries(gk, a) ==
  LET errMessage == "could not create user"
      req == Post(SetBody(GetRequestWithBearerAuth(gk, a.token), a.user),
                  getAdminRealmURL(gk, a.realm, <<"users">>))
  IN  Do(gk, a, errMessage, req,
        [o \in Outcome |->
          LET err == checkForError(o.resp, o.err, errMessage)
          IN  IF IsFailureStatus(o)
                THEN [NoReturn EXCEPT !.again = TRUE]
              ELSE IF err # NilErr
                THEN Ret(StatusCode(o.resp), "", err)
                ELSE Ret(StatusCode(o.resp), getID(o.resp), NilErr)])

CreateUser(gk, a) ==
  LET errMessage == "could not create user"
      req == Post(SetBody(GetRequestWithBearerAuth(gk, a.token), a.user),
                  getAdminRealmURL(gk, a.realm, <<"users">>))
  IN  Do(gk, a, errMessage, req,
        [o \in Outcome |->
          LET err == checkForError(o.resp, o.err, errMessage)
          IN  IF err # NilErr
                THEN Ret(StatusCode(o.resp), "", err)
                ELSE Ret(StatusCode(o.resp), getID(o.resp), NilErr)])

DeleteUser(gk, a) ==
  LET errMessage == "could not delete user"
      req == Delete(GetRequestWithBearerAuth(gk, a.token),
                    getAdminRealmURL(gk, a.realm, <<"users", a.userID>>))
  IN  Do(gk, a, errMessage, req,
        [o \in Outcome |->
          Ret(StatusCode(o.resp), Nil, checkForError(o.resp, o.err, errMessage))])

\* Fault variant of GetUserByID: the token is left on the shared HTTP
\* client.
GetUserByID_KeepsToken(gk, a) ==
  LET errMessage == "could not get user by id"
      req == Get(SetResult(GetRequestWithBearerAuth(gk, a.accessToken)),
                 getAdminRealmURL(gk, a.realm, <<"users", a.userID>>))
  IN  IF a.userID = ""
        THEN Early(gk, a, errMessage,
               Ret(Lit(StatusBadRequest), Nil,
                   Wrap(New("userID shall not be empty"), errMessage)))
        ELSE Do([gk EXCEPT !.restyClient.Token = a.accessToken], a, errMessage, req,
               [o \in Outcome |->
                 LET err == checkForError(o.resp, o.err, errMessage)
                 IN  IF err # NilErr
                       THEN Ret(StatusCode(o.resp), Nil, err)
                       ELSE Ret(StatusCode(o.resp), Decode(o.resp), NilErr)])

\* Fault variant of GetUserByID: the empty user ID is not rejected.
GetUserByID_NoCheck(gk, a) ==
  LET errMessage == "could not get user by id"
      req == Get(SetResult(GetRequestWithBearerAuth(gk, a.accessToken)),
                 getAdminRealmURL(gk, a.realm, <<"users", a.userID>>))
  IN  IF FALSE
        THEN Early(gk, a, errMessage,
               Ret(Lit(StatusBadRequest), Nil,
                   Wrap(New("userID shall not be empty"), errMessage)))
        ELSE Do(gk, a, errMessage, req,
               [o \in Outcome |->
                 LET err == checkForError(o.resp, o.err, errMessage)
                 IN  IF err # NilErr
                       THEN Ret(StatusCode(o.resp), Nil, err)
                       ELSE Ret(StatusCode(o.resp), Decode(o.resp), NilErr)])

\* Fault variant of GetUserByID: the check of the user ID is inverted.
GetUserByID_InvertedCheck(gk, a) ==
  LET errMessage == "could not get user by id"
      req == Get(SetResult(GetRequestWithBearerAuth(gk, a.accessToken)),
                 getAdminRealmURL(gk, a.realm, <<"users", a.userID>>))
  IN  IF a.userID # ""
        THEN Early(gk, a, errMessage,
               Ret(Lit(StatusBadRequest), Nil,
                   Wrap(New("userID shall not be empty"), errMessage)))
        ELSE Do(gk, a, errMessage, req,
               [o \in Outcome |->
                 LET err == checkForError(o.resp, o.err, errMessage)
                 IN  IF err # NilErr
                       THEN Ret(StatusCode(o.resp), Nil, err)
                       ELSE Ret(StatusCode(o.resp), Decode(o.resp), NilErr)])

GetUserByID(gk, a) ==
  LET errMessage == "could not get user by id"
      req == Get(SetResult(GetRequestWithBearerAuth(gk, a.accessToken)),
                 getAdminRealmURL(gk, a.realm, <<"users", a.userID>>))
  IN  IF a.userID = ""
        THEN Early(gk, a, errMessage,
               Ret(Lit(StatusBadRequest), Nil,
                   Wrap(New("userID shall not be empty"), errMessage)))
        ELSE Do(gk, a, errMessage, req,
               [o \in Outcome |->
                 LET err == checkForError(o.resp, o.err, errMessage)
                 IN  IF err # NilErr
                       THEN Ret(StatusCode(o.resp), Nil, err)
                       ELSE Ret(StatusCode(o.resp), Decode(o.resp), NilErr)])

\* The count is an int: "0" and "-1" stand for the literals 0 and -1.
GetUserCount(gk, a) ==
  LET errMessage == "could not get user count"
      qp == GetQueryParams(a.params)
      req == Get(SetQueryParams(SetResult(GetRequestWithBearerAuth(gk, a.token)), qp.q),
                 getAdminRealmURL(gk, a.realm, <<"users", "count">>))
  IN  IF qp.err # NilErr
        THEN Early(gk, a, errMessage,
               Ret(Lit(StatusBadRequest), "0", Wrap(qp.err, errMessage)))
        ELSE Do(gk, a, errMessage, req,
               [o \in Outcome |->
                 LET err == checkForError(o.resp, o.err, errMessage)
                 IN  IF err # NilErr
                       THEN Ret(StatusCode(o.resp), "-1", Wrap(err, errMessage))
                       ELSE Ret(StatusCode(o.resp), Decode(o.resp), NilErr)])

GetUserGroups(gk, a) ==
  LET errMessage == "could not get user groups"
      qp == GetQueryParams(a.params)
      req == Get(SetQueryParams(SetResult(GetRequestWithBearerAuth(gk, a.token)), qp.q),
                 getAdminRealmURL(gk, a.realm, <<"users", a.userID, "groups">>))
  IN  IF qp.err # NilErr
        THEN Early(gk, a, errMessage,
               Ret(Lit(StatusBadRequest), Nil, Wrap(qp.err, errMessage)))
        ELSE Do(gk, a, errMessage, req,
               [o \in Outcome |->
                 LET err == checkForError(o.resp, o.err, errMessage)
                 IN  IF err # NilErr
                       THEN Ret(StatusCode(o.resp), Nil, err)
                       ELSE Ret(StatusCode(o.resp), Decode(o.resp), NilErr)])

\* Fault variant of GetUsers: the decoded data is returned with the error.
GetUsers_KeepsDataOnError(gk, a) ==
  LET errMessage == "could not get users"
      qp == GetQueryParams(a.params)
      req == Get(SetQueryParams(SetResult(GetRequestWithBearerAuth(gk, a.token)), qp.q),
                 getAdminRealmURL(gk, a.realm, <<"users">>))
  IN  IF qp.err # NilErr
        THEN Early(gk, a, errMessage,
               Ret(Lit(StatusBadRequest), Nil, Wrap(qp.err, errMessage)))
        ELSE Do(gk, a, errMessage, req,
               [o \in Outcome |->
                 LET err == checkForError(o.resp, o.err, errMessage)
                 IN  IF err # NilErr
                       THEN Ret(StatusCode(o.resp), Decode(o.resp), err)
                       ELSE Ret(StatusCode(o.resp), Decode(o.resp), NilErr)])

GetUsers(gk, a) ==
  LET errMessage == "could not get users"
      qp == GetQueryParams(a.params)
      req == Get(SetQueryParams(SetResult(GetRequestWithBearerAuth(gk, a.token)), qp.q),
                 getAdminRealmURL(gk, a.realm, <<"users">>))
  IN  IF qp.err # NilErr
        THEN Early(gk, a, errMessage,
               Ret(Lit(StatusBadRequest), Nil, Wrap(qp.err, errMessage)))
        ELSE Do(gk, a, errMessage, req,
               [o \in Outcome |->
                 LET err == checkForError(o.resp, o.err, errMessage)
                 IN  IF err # NilErr
                       THEN Ret(StatusCode(o.resp), Nil, err)
                       ELSE Ret(StatusCode(o.resp), Decode(o.resp), NilErr)])

GetUsersByRoleName(gk, a) ==
  LET errMessage == "could not get users by role name"
      qp == GetQueryParams(a.params)
      req == Get(SetQueryParams(SetResult(GetRequestWithBearerAuth(gk, a.token)), qp.q),
                 getAdminRealmURL(gk, a.realm, <<"roles", a.roleName, "users">>))
  IN  IF qp.err # NilErr
        THEN Early(gk, a, errMessage,
               Ret(Lit(StatusBadRequest), Nil, Wrap(qp.err, errMessage)))
        ELSE Do(gk, a, errMessage, req,
               [o \in Outcome |->
                 LET err == checkForError(o.resp, o.err, errMessage)
                 IN  IF err # NilErr
                       THEN Ret(StatusCode(o.resp), Nil, err)
                       ELSE Ret(StatusCode(o.resp), Decode(o.resp), NilErr)])

GetUsersByClientRoleName(gk, a) ==
  LET errMessage == "could not get users by client role name"
      qp == GetQueryParams(a.params)
      req == Get(SetQueryParams(SetResult(GetRequestWithBearerAuth(gk, a.token)), qp.q),
                 getAdminRealmURL(gk, a.realm,
                   <<"clients", a.idOfClient, "roles", a.roleName, "users">>))
  IN  IF qp.err # NilErr
        THEN Early(gk, a, errMessage, Ret(Lit(StatusBadRequest), Nil, qp.err))
        ELSE Do(gk, a, errMessage, req,
               [o \in Outcome |->
                 LET err == checkForError(o.resp, o.err, errMessage)
                 IN  IF err # NilErr
                       THEN Ret(StatusCode(o.resp), Nil, err)
                       ELSE Ret(StatusCode(o.resp), Decode(o.resp), NilErr)])

\* Fault variant of SetPassword: the token is kept on the shared HTTP
\* client, and a token kept there is used.
SetPassword_ClientToken(gk, a) ==
  LET errMessage == "could not set password"
      requestBody == [Password |-> a.password, Temporary |-> a.temporary,
                      Type |-> StringP("password")]
      cached == IF gk.restyClient.Token = "" THEN a.token ELSE gk.restyClient.Token
      req == Put(SetBody(GetRequestWithBearerAuth(gk, cached), requestBody),
                 getAdminRealmURL(gk, a.realm, <<"users", a.userID, "reset-password">>))
  IN  Do([gk EXCEPT !.restyClient.Token = cached], a, errMessage, req,
        [o \in Outcome |->
          Ret(StatusCode(o.resp), Nil, checkForError(o.resp, o.err, errMessage))])

SetPassword(gk, a) ==
  LET errMessage == "could not set password"
      requestBody == [Password |-> a.password, Temporary |-> a.temporary,
                      Type |-> StringP("password")]
      req == Put(SetBody(GetRequestWithBearerAuth(gk, a.token), requestBody),
                 getAdminRealmURL(gk, a.realm, <<"users", a.userID, "reset-password">>))
  IN  Do(gk, a, errMessage, req,
        [o \in Outcome |->
          Ret(StatusCode(o.resp), Nil, checkForError(o.resp, o.err, errMessage))])

UpdateUser(gk, a) ==
  LET errMessage == "could not update user"
      req == Put(SetBody(GetRequestWithBearerAuth(gk, a.token), a.user),
                 getAdminRealmURL(gk, a.realm, <<"users", PString(a.user.ID)>>))
  IN  Do(gk, a, errMessage, req,
        [o \in Outcome |->
          Ret(StatusCode(o.resp), Nil, checkForError(o.resp, o.err, errMessage))])

AddUserToGroup(gk, a) ==
  LET errMessage == "could not add user to group"
      req == Put(GetRequestWithBearerAuth(gk, a.token),
                 getAdminRealmURL(gk, a.realm, <<"users", a.userID, "groups", a.groupID>>))
  IN  Do(gk, a, errMessage, req,
        [o \in Outcome |->
          Ret(StatusCode(o.resp), Nil, checkForError(o.resp, o.err, errMessage))])

DeleteUserFromGroup(gk, a) ==
  LET errMessage == "could not delete user from group"
      req == Delete(GetRequestWithBearerAuth(gk, a.token),
                    getAdminRealmURL(gk, a.realm, <<"users", a.userID, "groups", a.groupID>>))
  IN  Do(gk, a, errMessage, req,
        [o \in Outcome |->
          Ret(StatusCode(o.resp), Nil, checkForError(o.resp, o.err, errMessage))])

\* Fault variant of GetUserSessions: a status of its own on the error path.
GetUserSessions_OwnStatus(gk, a) ==
  LET errMessage == "could not get user sessions"
      req == Get(SetResult(GetRequestWithBearerAuth(gk, a.token)),
                 getAdminRealmURL(gk, a.realm, <<"users", a.userID, "sessions">>))
  IN  Do(gk, a, errMessage, req,
        [o \in Outcome |->
          LET err == checkForError(o.resp, o.err, errMessage)
          IN  IF err # NilErr
                THEN Ret(Lit(StatusBadRequest), Nil, err)
                ELSE Ret(StatusCode(o.resp), Decode(o.resp), NilErr)])

GetUserSessions(gk, a) ==
  LET errMessage == "could not get user sessions"
      req == Get(SetResult(GetRequestWithBearerAuth(gk, a.token)),
                 getAdminRealmURL(gk, a.realm, <<"users", a.userID, "sessions">>))
  IN  Do(gk, a, errMessage, req,
        [o \in Outcome |->
          LET err == checkForError(o.resp, o.err, errMessage)
          IN  IF err # NilErr
                THEN Ret(StatusCode(o.resp), Nil, err)
                ELSE Ret(StatusCode(o.resp), Decode(o.resp), NilErr)])

GetUserOfflineSessionsForClient(gk, a) ==
  LET errMessage == "could not get user offline sessions for client"
      req == Get(SetResult(GetRequestWithBearerAuth(gk, a.token)),
                 getAdminRealmURL(gk, a.realm,
                   <<"users", a.userID, "offline-sessions", a.idOfClient>>))
  IN  Do(gk, a, errMessage, req,
        [o \in Outcome |->
          LET err == checkForError(o.resp, o.err, errMessage)
          IN  IF err # NilErr
                THEN Ret(StatusCode(o.resp), Nil, err)
                ELSE Ret(StatusCode(o.resp), Decode(o.resp), NilErr)])

AddClientRolesToUser(gk, a) ==
  LET errMessage == "could not add client role to user"
      req == Post(SetBody(GetRequestWithBearerAuth(gk, a.token), a.roles),
                  getAdminRealmURL(gk, a.realm,
                    <<"users", a.userID, "role-mappings", "clients", a.idOfClient>>))
  IN  Do(gk, a, errMessage, req,
        [o \in Outcome |->
          Ret(StatusCode(o.resp), Nil, checkForError(o.resp, o.err, errMessage))])

\* Fault variant of AddClientRoleToUser: the roles are not passed on.
AddClientRoleToUser_DropsRoles(gk, a) ==
  [ AddClientRolesToUser(gk, [a EXCEPT !.roles = << >>]) EXCEPT !.caller = a ]

AddClientRoleToUser(gk, a) == AddClientRolesToUser(gk, a)

DeleteClientRolesFromUser(gk, a) ==
  LET errMessage == "could not delete client role from user"
      req == Delete(SetBody(GetRequestWithBearerAuth(gk, a.token), a.roles),
                    getAdminRealmURL(gk, a.realm,
                      <<"users", a.userID, "role-mappings", "clients", a.idOfClient>>))
  IN  Do(gk, a, errMessage, req,
        [o \in Outcome |->
          Ret(StatusCode(o.resp), Nil, checkForError(o.resp, o.err, errMessage))])

DeleteClientRoleFromUser(gk, a) == DeleteClientRolesFromUser(gk, a)

\* The success path returns the shadowed outer err, which is nil there.
GetUserFederatedIdentities(gk, a) ==
  LET errMessage == "could not get user federated identities"
      req == Get(SetResult(GetRequestWithBearerAuth(gk, a.token)),
                 getAdminRealmURL(gk, a.realm, <<"users", a.userID, "federated-identity">>))
  IN  Do(gk, a, errMessage, req,
        [o \in Outcome |->
          LET err == checkForError(o.resp, o.err, errMessage)
          IN  IF err # NilErr
                THEN Ret(StatusCode(o.resp), Nil, err)
                ELSE Ret(StatusCode(o.resp), Decode(o.resp), o.err)])

CreateUserFederatedIdentity(gk, a) ==
  LET errMessage == "could not create user federeated identity"
      req == Post(SetBody(GetRequestWithBearerAuth(gk, a.token), a.federatedIdentityRep),
                  getAdminRealmURL(gk, a.realm,
                    <<"users", a.userID, "federated-identity", a.providerID>>))
  IN  Do(gk, a, errMessage, req,
        [o \in Outcome |->
          Ret(StatusCode(o.resp), Nil, checkForError(o.resp, o.err, errMessage))])

DeleteUserFederatedIdentity(gk, a) ==
  LET errMessage == "could not delete user federeated identity"
      req == Delete(GetRequestWithBearerAuth(gk, a.token),
                    getAdminRealmURL(gk, a.realm,
                      <<"users", a.userID, "federated-identity", a.providerID>>))
  IN  Do(gk, a, errMessage, req,
        [o \in Outcome |->
          Ret(StatusCode(o.resp), Nil, checkForError(o.resp, o.err, errMessage))])

\* ------------------------------------------------------ requesting party
UmaTicket == "urn:ietf:params:oauth:grant-type:uma-ticket"

\* options.FormData(): the fields of the options that are present, as a
\* string map; an absent or empty grant type is the UMA ticket grant, an
\* absent response_include_resource_name is true.  Permissions is not part
\* of it.
FormData(options) ==
  LET o1 == [options EXCEPT !.GrantType = IF @ = Nil \/ @ = "" THEN UmaTicket ELSE @]
      keys == {"grant_type", "response_include_resource_name"}
                \cup (IF o1.Audience # Nil THEN {"audience"} ELSE {})
                \cup (IF o1.ResponseMode # Nil THEN {"response_mode"} ELSE {})
  IN  [k \in keys |->
        CASE k = "grant_type" -> o1.GrantType
          [] k = "response_include_resource_name" -> "true"
          [] k = "audience" -> o1.Audience
          [] k = "response_mode" -> o1.ResponseMode]

getRequestingParty(gk, token, realm, options) ==
  Post(SetResult(
         SetFormDataFromValues(
           SetFormData(GetRequestWithBearerAuth(gk, token), FormData(options)),
           "permission", PStringSlice(options.Permissions))),
       getRealmURL(gk, realm, <<gk.Config.openIDConnect, "token">>))

\* Fault variant of GetRequestingPartyPermissions: the response mode is
\* written into the options of the caller.
GetRequestingPartyPermissions_WritesThrough(gk, a) ==
  LET errMessage == "could not get requesting party token"
      options == [a.options EXCEPT !.ResponseMode = StringP("permissions")]
      req == getRequestingParty(gk, a.token, a.realm, options)
  IN  Do(gk, [a EXCEPT !.options = options], errMessage, req,
        [o \in Outcome |->
          LET err == checkForError(o.resp, o.err, errMessage)
          IN  IF err # NilErr
                THEN Ret(StatusCode(o.resp), Nil, err)
                ELSE Ret(StatusCode(o.resp), Decode(o.resp), NilErr)])

GetRequestingPartyPermissions(gk, a) ==
  LET errMessage == "could not get requesting party token"
      options == [a.options EXCEPT !.ResponseMode = StringP("permissions")]
      req == getRequestingParty(gk, a.token, a.realm, options)
  IN  Do(gk, a, errMessage, req,
        [o \in Outcome |->
          LET err == checkForError(o.resp, o.err, errMessage)
          IN  IF err # NilErr
                THEN Ret(StatusCode(o.resp), Nil, err)
                ELSE Ret(StatusCode(o.resp), Decode(o.resp), NilErr)])

\* Fault variant of GetRequestingPartyPermissionDecision: a response mode
\* the caller gave is kept.
GetRequestingPartyPermissionDecision_KeepsCallerMode(gk, a) ==
  LET errMessage == "could not get requesting party token"
      options == IF a.options.ResponseMode = Nil
                   THEN [a.options EXCEPT !.ResponseMode = StringP("decision")]
                   ELSE a.options
      req == getRequestingParty(gk, a.token, a.realm, options)
  IN  Do(gk, a, errMessage, req,
        [o \in Outcome |->
          LET err == checkForError(o.resp, o.err, errMessage)
          IN  IF err # NilErr
                THEN Ret(StatusCode(o.resp), Nil, err)
                ELSE Ret(StatusCode(o.resp), Decode(o.resp), NilErr)])

GetRequestingPartyPermissionDecision(gk, a) ==
  LET errMessage == "could not get requesting party token"
      options == [a.options EXCEPT !.ResponseMode = StringP("decision")]
      req == getRequestingParty(gk, a.token, a.realm, options)
  IN  Do(gk, a, errMessage, req,
        [o \in Outcome |->
          LET err == checkForError(o.resp, o.err, errMessage)
          IN  IF err # NilErr
                THEN Ret(StatusCode(o.resp), Nil, err)
                ELSE Ret(StatusCode(o.resp), Decode(o.resp), NilErr)])

\* GetRequestingPartyToken: the requesting party token for the options as
\* the caller gave them.
GetRequestingPartyToken(gk, a) ==
  LET errMessage == "could not get requesting party token"
      req == getRequestingParty(gk, a.token, a.realm, a.options)
  IN  Do(gk, a, errMessage, req,
        [o \in Outcome |->
          LET err == checkForError(o.resp, o.err, errMessage)
          IN  IF err # NilErr
                THEN Ret(StatusCode(o.resp), Nil, err)
                ELSE Ret(StatusCode(o.resp), Decode(o.resp), NilErr)])

EvaluatePermission(gk, a) ==
  LET permission_token_grant == UmaTicket
      options == [GrantType |-> permission_token_grant, Audience |-> a.audience,
                  ResponseMode |-> a.response_mode, Permissions |-> a.permissions]
      inner == GetRequestingPartyToken(gk,
                 [a EXCEPT !.token = a.userToken, !.options = options])
  IN  [ inner EXCEPT
          !.caller = a,
          !.return = [o \in Outcome |->
            LET r == inner.return[o]
            IN  IF r.panic THEN r
                ELSE IF r.err # NilErr
                  THEN Ret(Lit(r.status), Nil, r.err)
                  ELSE Ret(Lit(r.status), r.result, NilErr)] ]

\* ----------------------------------------------------------- realm roles
\* Fault variant of CreateRealmRole: the name of the role is returned as
\* the identifier on the error path.
CreateRealmRole_NameOnError(gk, a) ==
  LET errMessage == "could not create realm role"
      req == Post(SetBody(GetRequestWithBearerAuth(gk, a.token), a.role),
               getAdminRealmURL(gk, a.realm, <<"roles">>))
  IN  Do(gk, a, errMessage, req,
        [o \in Outcome |->
          LET err == checkForError(o.resp, o.err, errMessage)
          IN  IF err # NilErr
                THEN Ret(StatusCode(o.resp), a.role.Name, err)
                ELSE Ret(StatusCode(o.resp), getID(o.resp), NilErr)])

CreateRealmRole(gk, a) ==
  LET errMessage == "could not create realm role"
      req == Post(SetBody(GetRequestWithBearerAuth(gk, a.token), a.role),
               getAdminRealmURL(gk, a.realm, <<"roles">>))
  IN  Do(gk, a, errMessage, req,
        [o \in Outcome |->
          LET err == checkForError(o.resp, o.err, errMessage)
          IN  IF err # NilErr
                THEN Ret(StatusCode(o.resp), "", err)
                ELSE Ret(StatusCode(o.resp), getID(o.resp), NilErr)])

GetRealmRole(gk, a) ==
  LET errMessage == "could not get realm role"
      req == Get(SetResult(GetRequestWithBearerAuth(gk, a.token)),
               getAdminRealmURL(gk, a.realm, <<"roles", a.roleName>>))
  IN  Do(gk, a, errMessage, req,
        [o \in Outcome |->
          LET err == checkForError(o.resp, o.err, errMessage)
          IN  IF err # NilErr
                THEN Ret(StatusCode(o.resp), Nil, err)
                ELSE Ret(StatusCode(o.resp), Decode(o.resp), NilErr)])

GetRealmRoleByID(gk, a) ==
  LET errMessage == "could not get realm role"
      req == Get(SetResult(GetRequestWithBearerAuth(gk, a.token)),
               getAdminRealmURL(gk, a.realm, <<"roles-by-id", a.roleID>>))
  IN  Do(gk, a, errMessage, req,
        [o \in Outcome |->
          LET err == checkForError(o.resp, o.err, errMessage)
          IN  IF err # NilErr
                THEN Ret(StatusCode(o.resp), Nil, err)
                ELSE Ret(StatusCode(o.resp), Decode(o.resp), NilErr)])

\* Fault variant of GetRealmRoles: the error of the conversion of the query
\* parameters is ignored.
GetRealmRoles_IgnoresConversionError(gk, a) ==
  LET errMessage == "could not get realm roles"
      qp == GetQueryParams(a.params)
      req == Get(SetQueryParams(SetResult(GetRequestWithBearerAuth(gk, a.token)), qp.q),
                 getAdminRealmURL(gk, a.realm, <<"roles">>))
  IN  IF FALSE
        THEN Early(gk, a, errMessage,
               Ret(Lit(StatusInternalServerError), Nil, Wrap(qp.err, errMessage)))
        ELSE Do(gk, a, errMessage, req,
               [o \in Outcome |->
                 LET err == checkForError(o.resp, o.err, errMessage)
                 IN  IF err # NilErr
                       THEN Ret(StatusCode(o.resp), Nil, err)
                       ELSE Ret(StatusCode(o.resp), Decode(o.resp), NilErr)])

GetRealmRoles(gk, a) ==
  LET errMessage == "could not get realm roles"
      qp == GetQueryParams(a.params)
      req == Get(SetQueryParams(SetResult(GetRequestWithBearerAuth(gk, a.token)), qp.q),
                 getAdminRealmURL(gk, a.realm, <<"roles">>))
  IN  IF qp.err # NilErr
        THEN Early(gk, a, errMessage,
               Ret(Lit(StatusInternalServerError), Nil, Wrap(qp.err, errMessage)))
        ELSE Do(gk, a, errMessage, req,
               [o \in Outcome |->
                 LET err == checkForError(o.resp, o.err, errMessage)
                 IN  IF err # NilErr
                       THEN Ret(StatusCode(o.resp), Nil, err)
                       ELSE Ret(StatusCode(o.resp), Decode(o.resp), NilErr)])

GetRealmRolesByUserID(gk, a) ==
  LET errMessage == "could not get realm roles by user id"
      req == Get(SetResult(GetRequestWithBearerAuth(gk, a.token)),
               getAdminRealmURL(gk, a.realm, <<"users", a.userID, "role-mappings", "realm">>))
  IN  Do(gk, a, errMessage, req,
        [o \in Outcome |->
          LET err == checkForError(o.resp, o.err, errMessage)
          IN  IF err # NilErr
                THEN Ret(StatusCode(o.resp), Nil, err)
                ELSE Ret(StatusCode(o.resp), Decode(o.resp), NilErr)])

GetRealmRolesByGroupID(gk, a) ==
  LET errMessage == "could not get realm roles by group id"
      req == Get(SetResult(GetRequestWithBearerAuth(gk, a.token)),
               getAdminRealmURL(gk, a.realm, <<"groups", a.groupID, "role-mappings", "realm">>))
  IN  Do(gk, a, errMessage, req,
        [o \in Outcome |->
          LET err == checkForError(o.resp, o.err, errMessage)
          IN  IF err # NilErr
                THEN Ret(StatusCode(o.resp), Nil, err)
                ELSE Ret(StatusCode(o.resp), Decode(o.resp), NilErr)])

UpdateRealmRole(gk, a) ==
  LET errMessage == "could not update realm role"
      req == Put(SetBody(GetRequestWithBearerAuth(gk, a.token), a.role),
               getAdminRealmURL(gk, a.realm, <<"roles", a.roleName>>))
  IN  Do(gk, a, errMessage, req,
        [o \in Outcome |->
          Ret(StatusCode(o.resp), Nil, checkForError(o.resp, o.err, errMessage))])

UpdateRealmRoleByID(gk, a) ==
  LET errMessage == "could not update realm role"
      req == Put(SetBody(GetRequestWithBearerAuth(gk, a.token), a.role),
               getAdminRealmURL(gk, a.realm, <<"roles-by-id", a.roleID>>))
  IN  Do(gk, a, errMessage, req,
        [o \in Outcome |->
          Ret(StatusCode(o.resp), Nil, checkForError(o.resp, o.err, errMessage))])

DeleteRealmRole(gk, a) ==
  LET errMessage == "could not delete realm role"
      req == Delete(GetRequestWithBearerAuth(gk, a.token),
               getAdminRealmURL(gk, a.realm, <<"roles", a.roleName>>))
  IN  Do(gk, a, errMessage, req,
        [o \in Outcome |->
          Ret(StatusCode(o.resp), Nil, checkForError(o.resp, o.err, errMessage))])

AddRealmRoleToUser(gk, a) ==
  LET errMessage == "could not add realm role to user"
      req == Post(SetBody(GetRequestWithBearerAuth(gk, a.token), a.roles),
               getAdminRealmURL(gk, a.realm, <<"users", a.userID, "role-mappings", "realm">>))
  IN  Do(gk, a, errMessage, req,
        [o \in Outcome |->
          Ret(StatusCode(o.resp), Nil, checkForError(o.resp, o.err, errMessage))])

DeleteRealmRoleFromUser(gk, a) ==
  LET errMessage == "could not delete realm role from user"
      req == Delete(SetBody(GetRequestWithBearerAuth(gk, a.token), a.roles),
               getAdminRealmURL(gk, a.realm, <<"users", a.userID, "role-mappings", "realm">>))
  IN  Do(gk, a, errMessage, req,
        [o \in Outcome |->
          Ret(StatusCode(o.resp), Nil, checkForError(o.resp, o.err, errMessage))])

AddRealmRoleToGroup(gk, a) ==
  LET errMessage == "could not add realm role to group"
      req == Post(SetBody(GetRequestWithBearerAuth(gk, a.token), a.roles),
               getAdminRealmURL(gk, a.realm, <<"groups", a.groupID, "role-mappings", "realm">>))
  IN  Do(gk, a, errMessage, req,
        [o \in Outcome |->
          Ret(StatusCode(o.resp), Nil, checkForError(o.resp, o.err, errMessage))])

DeleteRealmRoleFromGroup(gk, a) ==
  LET errMessage == "could not delete realm role from group"
      req == Delete(SetBody(GetRequestWithBearerAuth(gk, a.token), a.roles),
               getAdminRealmURL(gk, a.realm, <<"groups", a.groupID, "role-mappings", "realm">>))
  IN  Do(gk, a, errMessage, req,
        [o \in Outcome |->
          Ret(StatusCode(o.resp), Nil, checkForError(o.resp, o.err, errMessage))])

AddRealmRoleComposite(gk, a) ==
  LET errMessage == "could not add realm role composite"
      req == Post(SetBody(GetRequestWithBearerAuth(gk, a.token), a.roles),
               getAdminRealmURL(gk, a.realm, <<"roles", a.roleName, "composites">>))
  IN  Do(gk, a, errMessage, req,
        [o \in Outcome |->
          Ret(StatusCode(o.resp), Nil, checkForError(o.resp, o.err, errMessage))])

DeleteRealmRoleComposite(gk, a) ==
  LET errMessage == "could not delete realm role composite"
      req == Delete(SetBody(GetRequestWithBearerAuth(gk, a.token), a.roles),
               getAdminRealmURL(gk, a.realm, <<"roles", a.roleName, "composites">>))
  IN  Do(gk, a, errMessage, req,
        [o \in Outcome |->
          Ret(StatusCode(o.resp), Nil, checkForError(o.resp, o.err, errMessage))])

GetCompositeRealmRoles(gk, a) ==
  LET errMessage == "could not get composite realm roles by role"
      req == Get(SetResult(GetRequestWithBearerAuth(gk, a.token)),
               getAdminRealmURL(gk, a.realm, <<"roles", a.roleName, "composites">>))
  IN  Do(gk, a, errMessage, req,
        [o \in Outcome |->
          LET err == checkForError(o.resp, o.err, errMessage)
          IN  IF err # NilErr
                THEN Ret(StatusCode(o.resp), Nil, err)
                ELSE Ret(StatusCode(o.resp), Decode(o.resp), NilErr)])

GetCompositeRolesByRoleID(gk, a) ==
  LET errMessage == "could not get composite client roles by role id"
      req == Get(SetResult(GetRequestWithBearerAuth(gk, a.token)),
               getAdminRealmURL(gk, a.realm, <<"roles-by-id", a.roleID, "composites">>))
  IN  Do(gk, a, errMessage, req,
        [o \in Outcome |->
          LET err == checkForError(o.resp, o.err, errMessage)
          IN  IF err # NilErr
                THEN Ret(StatusCode(o.resp), Nil, err)
                ELSE Ret(StatusCode(o.resp), Decode(o.resp), NilErr)])

\* Fault variant of GetCompositeRealmRolesByRoleID: the last part of the
\* path is missing.
GetCompositeRealmRolesByRoleID_NoRealm(gk, a) ==
  LET errMessage == "could not get composite client roles by role id"
      req == Get(SetResult(GetRequestWithBearerAuth(gk, a.token)),
               getAdminRealmURL(gk, a.realm, <<"roles-by-id", a.roleID, "composites">>))
  IN  Do(gk, a, errMessage, req,
        [o \in Outcome |->
          LET err == checkForError(o.resp, o.err, errMessage)
          IN  IF err # NilErr
                THEN Ret(StatusCode(o.resp), Nil, err)
                ELSE Ret(StatusCode(o.resp), Decode(o.resp), NilErr)])

GetCompositeRealmRolesByRoleID(gk, a) ==
  LET errMessage == "could not get composite client roles by role id"
      req == Get(SetResult(GetRequestWithBearerAuth(gk, a.token)),
               getAdminRealmURL(gk, a.realm, <<"roles-by-id", a.roleID, "composites", "realm">>))
  IN  Do(gk, a, errMessage, req,
        [o \in Outcome |->
          LET err == checkForError(o.resp, o.err, errMessage)
          IN  IF err # NilErr
                THEN Ret(StatusCode(o.resp), Nil, err)
                ELSE Ret(StatusCode(o.resp), Decode(o.resp), NilErr)])

GetCompositeRealmRolesByUserID(gk, a) ==
  LET errMessage == "could not get composite client roles by user id"
      req == Get(SetResult(GetRequestWithBearerAuth(gk, a.token)),
               getAdminRealmURL(gk, a.realm, <<"users", a.userID, "role-mappings", "realm", "composite">>))
  IN  Do(gk, a, errMessage, req,
        [o \in Outcome |->
          LET err == checkForError(o.resp, o.err, errMessage)
          IN  IF err # NilErr
                THEN Ret(StatusCode(o.resp), Nil, err)
                ELSE Ret(StatusCode(o.resp), Decode(o.resp), NilErr)])

GetCompositeRealmRolesByGroupID(gk, a) ==
  LET errMessage == "could not get composite client roles by user id"
      req == Get(SetResult(GetRequestWithBearerAuth(gk, a.token)),
               getAdminRealmURL(gk, a.realm, <<"groups", a.groupID, "role-mappings", "realm", "composite">>))
  IN  Do(gk, a, errMessage, req,
        [o \in Outcome |->
          LET err == checkForError(o.resp, o.err, errMessage)
          IN  IF err # NilErr
                THEN Ret(StatusCode(o.resp), Nil, err)
                ELSE Ret(StatusCode(o.resp), Decode(o.resp), NilErr)])

GetAvailableRealmRolesByUserID(gk, a) ==
  LET errMessage == "could not get available client roles by user id"
      req == Get(SetResult(GetRequestWithBearerAuth(gk, a.token)),
               getAdminRealmURL(gk, a.realm, <<"users", a.userID, "role-mappings", "realm", "available">>))
  IN  Do(gk, a, errMessage, req,
        [o \in Outcome |->
          LET err == checkForError(o.resp, o.err, errMessage)
          IN  IF err # NilErr
                THEN Ret(StatusCode(o.resp), Nil, err)
                ELSE Ret(StatusCode(o.resp), Decode(o.resp), NilErr)])

GetAvailableRealmRolesByGroupID(gk, a) ==
  LET errMessage == "could not get available client roles by user id"
      req == Get(SetResult(GetRequestWithBearerAuth(gk, a.token)),
               getAdminRealmURL(gk, a.realm, <<"groups", a.groupID, "role-mappings", "realm", "available">>))
  IN  Do(gk, a, errMessage, req,
        [o \in Outcome |->
          LET err == checkForError(o.resp, o.err, errMessage)
          IN  IF err # NilErr
                THEN Ret(StatusCode(o.resp), Nil, err)
                ELSE Ret(StatusCode(o.resp), Decode(o.resp), NilErr)])

\* -------------------------------------------------------------- dispatch
\* The public operations of the three families.
Ops ==
  { "CreateUser", "DeleteUser", "GetUserByID", "GetUserCount",
    "GetUserGroups", "GetUsers", "GetUsersByRoleName",
    "GetUsersByClientRoleName", "SetPassword", "UpdateUser",
    "AddUserToGroup", "DeleteUserFromGroup", "GetUserSessions",
    "GetUserOfflineSessionsForClient", "AddClientRolesToUser",
    "AddClientRoleToUser", "DeleteClientRolesFromUser",
    "DeleteClientRoleFromUser", "GetUserFederatedIdentities",
    "CreateUserFederatedIdentity", "DeleteUserFederatedIdentity",
    "GetRequestingPartyPermissions",
    "GetRequestingPartyPermissionDecision", "GetRequestingPartyToken",
    "EvaluatePermission",
    "CreateRealmRole", "GetRealmRole", "GetRealmRoleByID", "GetRealmRoles",
    "GetRealmRolesByUserID", "GetRealmRolesByGroupID", "UpdateRealmRole",
    "UpdateRealmRoleByID", "DeleteRealmRole", "AddRealmRoleToUser",
    "DeleteRealmRoleFromUser", "AddRealmRoleToGroup",
    "DeleteRealmRoleFromGroup", "AddRealmRoleComposite",
    "DeleteRealmRoleComposite", "GetCompositeRealmRoles",
    "GetCompositeRolesByRoleID", "GetCompositeRealmRolesByRoleID",
    "GetCompositeRealmRolesByUserID", "GetCompositeRealmRolesByGroupID",
    "GetAvailableRealmRolesByUserID", "GetAvailableRealmRolesByGroupID" }

\* The operation of that name, on the client gk with the arguments a.
Op(op, gk, a) ==
  CASE op = "CreateUser" -> CreateUser(gk, a)
    [] op = "DeleteUser" -> DeleteUser(gk, a)
    [] op = "GetUserByID" -> GetUserByID(gk, a)
    [] op = "GetUserCount" -> GetUserCount(gk, a)
    [] op = "GetUserGroups" -> GetUserGroups(gk, a)
    [] op = "GetUsers" -> GetUsers(gk, a)
    [] op = "GetUsersByRoleName" -> GetUsersByRoleName(gk, a)
    [] op = "GetUsersByClientRoleName" -> GetUsersByClientRoleName(gk, a)
    [] op = "SetPassword" -> SetPassword(gk, a)
    [] op = "UpdateUser" -> UpdateUser(gk, a)
    [] op = "AddUserToGroup" -> AddUserToGroup(gk, a)
    [] op = "DeleteUserFromGroup" -> DeleteUserFromGroup(gk, a)
    [] op = "GetUserSessions" -> GetUserSessions(gk, a)
    [] op = "GetUserOfflineSessionsForClient" -> GetUserOfflineSessionsForClient(gk, a)
    [] op = "AddClientRolesToUser" -> AddClientRolesToUser(gk, a)
    [] op = "AddClientRoleToUser" -> AddClientRoleToUser(gk, a)
    [] op = "DeleteClientRolesFromUser" -> DeleteClientRolesFromUser(gk, a)
    [] op = "DeleteClientRoleFromUser" -> DeleteClientRoleFromUser(gk, a)
    [] op = "GetUserFederatedIdentities" -> GetUserFederatedIdentities(gk, a)
    [] op = "CreateUserFederatedIdentity" -> CreateUserFederatedIdentity(gk, a)
    [] op = "DeleteUserFederatedIdentity" -> DeleteUserFederatedIdentity(gk, a)
    [] op = "GetRequestingPartyPermissions" -> GetRequestingPartyPermissions(gk, a)
    [] op = "GetRequestingPartyPermissionDecision" -> GetRequestingPartyPermissionDecision(gk, a)
    [] op = "GetRequestingPartyToken" -> GetRequestingPartyToken(gk, a)
    [] op = "EvaluatePermission" -> EvaluatePermission(gk, a)
    [] op = "CreateRealmRole" -> CreateRealmRole(gk, a)
    [] op = "GetRealmRole" -> GetRealmRole(gk, a)
    [] op = "GetRealmRoleByID" -> GetRealmRoleByID(gk, a)
    [] op = "GetRealmRoles" -> GetRealmRoles(gk, a)
    [] op = "GetRealmRolesByUserID" -> GetRealmRolesByUserID(gk, a)
    [] op = "GetRealmRolesByGroupID" -> GetRealmRolesByGroupID(gk, a)
    [] op = "UpdateRealmRole" -> UpdateRealmRole(gk, a)
    [] op = "UpdateRealmRoleByID" -> UpdateRealmRoleByID(gk, a)
    [] op = "DeleteRealmRole" -> DeleteRealmRole(gk, a)
    [] op = "AddRealmRoleToUser" -> AddRealmRoleToUser(gk, a)
    [] op = "DeleteRealmRoleFromUser" -> DeleteRealmRoleFromUser(gk, a)
    [] op = "AddRealmRoleToGroup" -> AddRealmRoleToGroup(gk, a)
    [] op = "DeleteRealmRoleFromGroup" -> DeleteRealmRoleFromGroup(gk, a)
    [] op = "AddRealmRoleComposite" -> AddRealmRoleComposite(gk, a)
    [] op = "DeleteRealmRoleComposite" -> DeleteRealmRoleComposite(gk, a)
    [] op = "GetCompositeRealmRoles" -> GetCompositeRealmRoles(gk, a)
    [] op = "GetCompositeRolesByRoleID" -> GetCompositeRolesByRoleID(gk, a)
    [] op = "GetCompositeRealmRolesByRoleID" -> GetCompositeRealmRolesByRoleID(gk, a)
    [] op = "GetCompositeRealmRolesByUserID" -> GetCompositeRealmRolesByUserID(gk, a)
    [] op = "GetCompositeRealmRolesByGroupID" -> GetCompositeRealmRolesByGroupID(gk, a)
    [] op = "GetAvailableRealmRolesByUserID" -> GetAvailableRealmRolesByUserID(gk, a)
    [] op = "GetAvailableRealmRolesByGroupID" -> GetAvailableRealmRolesByGroupID(gk, a)

\* The operations that read the user ID as a precondition or take a
\* query-parameter struct; they are also called with the arguments ArgsE.
EdgeOps ==
  { "GetUserByID", "GetUserCount", "GetUserGroups", "GetUsers",
    "GetUsersByRoleName", "GetUsersByClientRoleName", "GetRealmRoles" }

ArgsOf(op) == IF op \in EdgeOps THEN Bundles ELSE Bundles \ {"E"}

\* The verb and the URL path template of the request of an operation.
Endpoint(op) ==
  LET D == Op(op, G0, ArgsT)
  IN  IF D.sends = <<>> THEN <<Nil, <<>> >>
      ELSE <<D.sends[1].verb, D.sends[1].url>>

\* ----------------------------------------------------------------- state
NoOutcome == [resp |-> NoResponse, err |-> NilErr]

Idle ==
  [ pc |-> "idle", op |-> "", b |-> "1", sent |-> <<>>, outcome |-> NoOutcome,
    ret |-> NoReturn, caller |-> Args1, afterFail |-> FALSE, ov |-> FALSE ]

Init ==
  /\ g = G0
  /\ calls = [c \in Slots |-> Idle]
  /\ ncalls = 0
  /\ failed = FALSE

\* A panic is recovered nowhere in the client: it ends the program.
Crashed == \E c \in Slots : calls[c].pc = "panicked"

InFlight(c) == calls[c].pc = "waiting"

\* A caller invokes an operation: the operation runs up to the point where
\* its request is on the wire, or returns early without a request.
Invoke(c, op, b) ==
  /\ ~Crashed
  /\ ncalls < MaxCalls
  /\ calls[c].pc \in {"idle", "done"}
  /\ LET D == Op(op, g, Args(b))
          over == ~D.early /\ \E d \in Slots \ {c} : InFlight(d)
      IN  /\ g' = D.client
          /\ calls' = [d \in Slots |->
               IF d = c
                 THEN [ pc |-> IF D.early THEN "done" ELSE "waiting",
                        op |-> op, b |-> b,
                        sent |-> [i \in DOMAIN D.sends |-> OnWire(D.client, D.sends[i])],
                        outcome |-> NoOutcome, ret |-> D.earlyRet,
                        caller |-> D.caller, afterFail |-> failed, ov |-> over ]
                 ELSE [calls[d] EXCEPT !.ov = @ \/ (over /\ InFlight(d))]]
          /\ failed' = (failed \/ (D.early /\ D.earlyRet.err # NilErr))
  /\ ncalls' = ncalls + 1

\* The HTTP layer answers the request of a call, and the operation runs
\* from there to its return (or to its panic).
Receive(c, o) ==
  /\ ~Crashed
  /\ InFlight(c)
  /\ LET D == Op(calls[c].op, g, Args(calls[c].b))
          r == D.return[o]
          again == [i \in DOMAIN D.sends |-> OnWire(D.client, D.sends[i])]
      IN  /\ g' = D.client
          /\ calls' = IF r.again
               THEN [calls EXCEPT ![c].sent = @ \o again]
               ELSE [calls EXCEPT ![c].pc = IF r.panic THEN "panicked" ELSE "done",
                                  ![c].outcome = o,
                                  ![c].ret = r]
          /\ failed' = (failed \/ r.panic \/ r.err # NilErr)
  /\ UNCHANGED ncalls

\* One caller: the calls of a run follow one another.
Caller == "c1"

Next ==
  \/ \E op \in Ops : \E b \in ArgsOf(op) : Invoke(Caller, op, b)
  \/ \E o \in Outcome : Receive(Caller, o)

Spec == Init /\ [][Next]_vars

\* Two callers, each with arguments of its own, make one call each on the
\* same client; the calls interleave in every way.
ArgsOfCaller(c) == IF c = Caller THEN "1" ELSE "2"

NextConc ==
  \/ \E c \in Slots, op \in Ops :
        calls[c].pc = "idle" /\ Invoke(c, op, ArgsOfCaller(c))
  \/ \E c \in Slots, o \in Outcome : Receive(c, o)

SpecConc == Init /\ [][NextConc]_vars

TypeOK ==
  /\ ncalls \in 0..MaxCalls
  /\ failed \in BOOLEAN
  /\ \A c \in Slots : calls[c].pc \in {"idle", "waiting", "done", "panicked"}

\* ---------------------------------------------------------------- claims
Done(c) == calls[c].pc = "done"

Ended(c) == calls[c].pc \in {"done", "panicked"}

Sent(c) == calls[c].sent # <<>>

\* The operations that return the identifier of a created resource.
IdOps == {"CreateUser", "CreateRealmRole"}

\* The operations that take a query-parameter struct.
ParamOps ==
  { "GetUserCount", "GetUserGroups", "GetUsers", "GetUsersByRoleName",
    "GetUsersByClientRoleName", "GetRealmRoles" }

\* The operations that POST to the token endpoint of the realm.
RequestingPartyOps ==
  { "GetRequestingPartyPermissions", "GetRequestingPartyPermissionDecision",
    "GetRequestingPartyToken", "EvaluatePermission" }

\* A deprecated operation and the operation that replaced it.
DeprecatedPairs ==
  { {"AddClientRoleToUser", "AddClientRolesToUser"},
    {"DeleteClientRoleFromUser", "DeleteClientRolesFromUser"} }

\* C1: a call whose HTTP call yielded a response with a non-success status
\* returns a non-nil error and no decoded data: the empty string for the ID
\* of CreateUser and CreateRealmRole, nil for every pointer and list result.
C1_NonSuccessStatusReturnsError ==
  \A c \in Slots :
    (Ended(c) /\ Sent(c) /\ IsFailureStatus(calls[c].outcome)) =>
      /\ Done(c)
      /\ calls[c].ret.err # NilErr
      /\ (calls[c].op \in IdOps => calls[c].ret.result = "")
      /\ (calls[c].op \notin IdOps \cup {"GetUserCount"} => calls[c].ret.result = Nil)

C1_Witness ==
  \E c \in Slots :
    /\ Done(c) /\ calls[c].op = "GetUsers"
    /\ calls[c].outcome.resp.status = 404 /\ calls[c].outcome.err = NilErr
    /\ calls[c].ret.err # NilErr /\ calls[c].ret.result = Nil

\* C2: a call whose HTTP call failed at transport level, with or without a
\* response object, returns normally to its caller with a non-nil error.
C2_TransportFailureReturnsError ==
  \A c \in Slots :
    (Ended(c) /\ Sent(c) /\ IsTransportFailure(calls[c].outcome)) =>
      (Done(c) /\ calls[c].ret.err # NilErr)

\* C3: the status returned by a call in which an HTTP response was received
\* is the status code of that response, on success and on error.
C3_StatusIsResponseStatus ==
  \A c \in Slots :
    (Ended(c) /\ Sent(c) /\ calls[c].outcome.err = NilErr) =>
      (Done(c) /\ calls[c].ret.status = calls[c].outcome.resp.status)

C3_Witness ==
  \E c \in Slots :
    /\ Done(c) /\ calls[c].op = "GetUserSessions"
    /\ calls[c].outcome.resp.status = 404 /\ calls[c].outcome.err = NilErr
    /\ calls[c].ret.err # NilErr /\ calls[c].ret.status = 404

\* C4: an invocation sends at most one HTTP request, also after a
\* non-success status or a transport failure, and also EvaluatePermission,
\* which delegates to GetRequestingPartyToken.
C4_AtMostOneRequest ==
  \A c \in Slots : Len(calls[c].sent) <= 1

C4_Witness ==
  \E c \in Slots :
    /\ Done(c) /\ calls[c].op \in {"CreateUser", "EvaluatePermission"}
    /\ IsFailureStatus(calls[c].outcome)
    /\ calls[c].ret.err # NilErr /\ Len(calls[c].sent) = 1

\* C5 as stated: a call returns a non-nil error only when its HTTP call
\* returned a non-2xx status or a transport error.
C5_ErrorOnlyFromHTTPCall ==
  \A c \in Slots :
    (Done(c) /\ calls[c].ret.err # NilErr) =>
      /\ Sent(c)
      /\ (IsFailureStatus(calls[c].outcome) \/ IsTransportFailure(calls[c].outcome))

\* C5 amended: a call returns a non-nil error only when its HTTP call
\* returned a non-2xx status or a transport error, or, without an HTTP call,
\* when GetUserByID is given an empty user ID or when the conversion of the
\* query parameters fails in an operation that takes them.
C5_ErrorFromHTTPCallOrValidation ==
  \A c \in Slots :
    (Done(c) /\ calls[c].ret.err # NilErr) =>
      \/ /\ Sent(c)
         /\ (IsFailureStatus(calls[c].outcome) \/ IsTransportFailure(calls[c].outcome))
      \/ /\ ~Sent(c)
         /\ \/ calls[c].op = "GetUserByID" /\ Args(calls[c].b).userID = ""
            \/ /\ calls[c].op \in ParamOps
               /\ GetQueryParams(Args(calls[c].b).params).err # NilErr

C5_Witness ==
  \E c \in Slots :
    /\ Done(c) /\ calls[c].op = "GetUserByID" /\ Args(calls[c].b).userID = ""
    /\ ~Sent(c) /\ calls[c].ret.err # NilErr

\* C6: calls made concurrently on one client do not interfere: the request
\* of each call is the request the operation builds from the call's own
\* arguments on a client nothing else has touched, with the call's own
\* token and realm, and what a call returns is what the operation makes of
\* the call's own response.
C6_ConcurrentCallsIndependent ==
  \A c \in Slots :
    LET D == Op(calls[c].op, G0, Args(calls[c].b))
    IN  /\ Sent(c) =>
             /\ calls[c].sent = [i \in DOMAIN D.sends |-> OnWire(G0, D.sends[i])]
             /\ calls[c].sent[1].token = Args(calls[c].b).token
             /\ calls[c].sent[1].url[3] = Args(calls[c].b).realm
        /\ (Ended(c) /\ Sent(c)) => calls[c].ret = D.return[calls[c].outcome]

C6_Witness ==
  \E c, d \in Slots :
    /\ c # d /\ Done(c) /\ Done(d) /\ calls[c].ov /\ calls[d].ov
    /\ calls[c].op = "SetPassword" /\ calls[d].op = "GetUsers"
    /\ calls[c].sent[1].token # calls[d].sent[1].token
    /\ calls[c].outcome.resp.status = 404 /\ calls[c].ret.err # NilErr
    /\ calls[d].outcome.resp.body = "d2" /\ calls[d].ret.result = "d2"

\* C7: a call leaves nothing behind on the client, and after any sequence
\* of earlier calls, failed ones included, a call returns what the same
\* call with the same response returns on a client no call was made on.
C7_NoTraceOfEarlierCalls ==
  /\ g = G0
  /\ \A c \in Slots :
       (Ended(c) /\ Sent(c)) =>
         calls[c].ret =
           Op(calls[c].op, G0, Args(calls[c].b)).return[calls[c].outcome]

C7_Witness ==
  \E c \in Slots :
    /\ Done(c) /\ calls[c].afterFail /\ calls[c].op = "GetUserByID"
    /\ calls[c].outcome.resp.status = 200
    /\ calls[c].ret.err = NilErr /\ calls[c].ret.result = calls[c].outcome.resp.body

\* C8 as stated: no two distinct operations send the same verb to the same
\* URL path template.
C8_EndpointsOneToOne ==
  \A c, d \in Slots :
    (Sent(c) /\ Sent(d) /\ calls[c].op # calls[d].op) =>
      Endpoint(calls[c].op) # Endpoint(calls[d].op)

\* C8 amended: no two distinct operations send the same verb to the same
\* URL path template, except a deprecated operation and its replacement
\* (AddClientRoleToUser / AddClientRolesToUser, DeleteClientRoleFromUser /
\* DeleteClientRolesFromUser) and the requesting-party operations, which
\* all POST to the token endpoint of the realm.
C8_EndpointsOneToOneButAliases ==
  \A c, d \in Slots :
    (Sent(c) /\ Sent(d) /\ calls[c].op # calls[d].op) =>
      \/ Endpoint(calls[c].op) # Endpoint(calls[d].op)
      \/ {calls[c].op, calls[d].op} \in DeprecatedPairs
      \/ {calls[c].op, calls[d].op} \subseteq RequestingPartyOps

C8_Witness ==
  \E c, d \in Slots :
    /\ Sent(c) /\ Sent(d)
    /\ calls[c].op = "GetCompositeRolesByRoleID"
    /\ calls[d].op = "GetCompositeRealmRolesByRoleID"
    /\ calls[c].sent[1].verb = calls[d].sent[1].verb
    /\ Endpoint(calls[c].op) # Endpoint(calls[d].op)

\* C9: the error a call returns after a non-success status or a transport
\* failure is the failure wrapped exactly once with the constant
\* description of the operation.
C9_WrappedExactlyOnce ==
  \A c \in Slots :
    (Done(c) /\ Sent(c)
       /\ (IsFailureStatus(calls[c].outcome) \/ IsTransportFailure(calls[c].outcome))) =>
      LET D == Op(calls[c].op, G0, Args(calls[c].b))
          failure == IF IsTransportFailure(calls[c].outcome)
                       THEN calls[c].outcome.err
                       ELSE New(calls[c].outcome.resp.body)
      IN  calls[c].ret.err = Wrap(failure, D.errMessage)

\* C10: no call changes what the caller passed in: after the call the
\* caller's arguments hold the values they held before it.
C10_CallerArgumentsUnchanged ==
  \A c \in Slots :
    calls[c].pc # "idle" => calls[c].caller = Args(calls[c].b)

C10_Witness ==
  \E c \in Slots :
    /\ Done(c) /\ calls[c].op = "GetRequestingPartyPermissions"
    /\ calls[c].sent[1].form["response_mode"] = <<"permissions">>
    /\ Args(calls[c].b).options.ResponseMode = "rm1"
    /\ calls[c].caller.options.ResponseMode = "rm1"

\* The HTTP call succeeded: no transport error and a success status.
Succeeded(o) == o.err = NilErr /\ IsSuccess(o.resp.status)

\* C11: CreateUser and CreateRealmRole return a nil error exactly when the
\* POST succeeded, and then the identifier is the one extracted from the
\* response; whenever they return a non-nil error the identifier is "".
C11_CreateReturnsIdIffSucceeded ==
  \A c \in Slots :
    (Ended(c) /\ calls[c].op \in IdOps) =>
      /\ Len(calls[c].sent) = 1 /\ calls[c].sent[1].verb = "POST"
      /\ (Done(c) /\ calls[c].ret.err = NilErr) <=> Succeeded(calls[c].outcome)
      /\ (Done(c) /\ calls[c].ret.err = NilErr) =>
           calls[c].ret.result = getID(calls[c].outcome.resp)
      /\ (Done(c) /\ calls[c].ret.err # NilErr) => calls[c].ret.result = ""

C11_Witness ==
  \E c \in Slots :
    /\ Done(c) /\ calls[c].op = "CreateRealmRole"
    /\ Succeeded(calls[c].outcome)
    /\ calls[c].ret.err = NilErr /\ calls[c].ret.result = "d2"
    /\ calls[c].ret.result = calls[c].outcome.resp.location[5]

\* The operation that replaced a deprecated one.
ReplacementOf(op) ==
  CASE op = "AddClientRoleToUser" -> "AddClientRolesToUser"
    [] op = "DeleteClientRoleFromUser" -> "DeleteClientRolesFromUser"

DeprecatedOps == {"AddClientRoleToUser", "DeleteClientRoleFromUser"}

\* C12: a deprecated operation sends the one request (verb, URL, bearer
\* token, body) its replacement sends for the same arguments, and returns
\* the status and the error its replacement returns for the same response.
C12_DeprecatedEquivalent ==
  \A c \in Slots :
    (calls[c].pc # "idle" /\ calls[c].op \in DeprecatedOps) =>
      LET D == Op(ReplacementOf(calls[c].op), G0, Args(calls[c].b))
      IN  /\ Len(calls[c].sent) = 1
          /\ calls[c].sent = [i \in DOMAIN D.sends |-> OnWire(G0, D.sends[i])]
          /\ Ended(c) => calls[c].ret = D.return[calls[c].outcome]

C12_Witness ==
  \E c \in Slots :
    /\ Done(c) /\ calls[c].op = "AddClientRoleToUser" /\ calls[c].b = "1"
    /\ calls[c].sent[1].verb = "POST"
    /\ calls[c].sent[1].body = << Args1.roles >>
    /\ calls[c].sent[1].token = "t1"
    /\ calls[c].outcome.resp.status = 404
    /\ calls[c].ret.status = 404
    /\ calls[c].ret.err = Wrap(New("error body"), "could not add client role to user")

\* The response mode an operation asks for.
ResponseModeOf(op) ==
  IF op = "GetRequestingPartyPermissions" THEN "permissions" ELSE "decision"

ResponseModeOps ==
  {"GetRequestingPartyPermissions", "GetRequestingPartyPermissionDecision"}

\* C13: GetRequestingPartyPermissions sends response_mode "permissions" and
\* GetRequestingPartyPermissionDecision response_mode "decision", whatever
\* response mode the caller's options hold; each sends one POST to the
\* OpenID Connect token endpoint of the realm with the caller's bearer
\* token, the form data of the options and one "permission" value per entry
\* of the options' permissions, in their order.
C13_ResponseModeAndTokenEndpoint ==
  \A c \in Slots :
    (calls[c].pc # "idle" /\ calls[c].op \in ResponseModeOps) =>
      LET a == Args(calls[c].b)
          fd == FormData(a.options)
          perms == PStringSlice(a.options.Permissions)
          form == calls[c].sent[1].form
      IN  /\ Len(calls[c].sent) = 1
          /\ calls[c].sent[1].verb = "POST"
          /\ calls[c].sent[1].url =
               <<"http://kc", "realms", a.realm, "protocol/openid-connect", "token">>
          /\ calls[c].sent[1].token = a.token
          /\ DOMAIN form = DOMAIN fd \cup {"response_mode"}
                             \cup (IF perms = << >> THEN {} ELSE {"permission"})
          /\ form["response_mode"] = << ResponseModeOf(calls[c].op) >>
          /\ \A k \in DOMAIN fd \ {"response_mode"} : form[k] = << fd[k] >>
          /\ perms # << >> => form["permission"] = perms

C13_Witness ==
  \E c \in Slots :
    /\ Done(c) /\ calls[c].op = "GetRequestingPartyPermissions"
    /\ Args(calls[c].b).options.ResponseMode = "rm1"
    /\ calls[c].sent[1].form["response_mode"] = <<"permissions">>
    /\ calls[c].sent[1].form["permission"] = <<"perm1", "perm1b", "perm1">>
    /\ calls[c].sent[1].form["audience"] = <<"aud1">>
    /\ calls[c].sent[1].verb = "POST" /\ calls[c].sent[1].token = "t1"

\* C14: GetUserByID with an empty user ID sends no request and returns
\* status 400, a nil user and a non-nil error; with a non-empty user ID it
\* sends exactly one GET to the admin URL of users/{userID} in the realm.
C14_GetUserByIDEmptyID ==
  \A c \in Slots :
    (calls[c].pc # "idle" /\ calls[c].op = "GetUserByID") =>
      LET a == Args(calls[c].b)
      IN  IF a.userID = ""
            THEN /\ Done(c) /\ calls[c].sent = << >>
                 /\ calls[c].ret.status = StatusBadRequest
                 /\ calls[c].ret.result = Nil
                 /\ calls[c].ret.err # NilErr
            ELSE /\ Len(calls[c].sent) = 1
                 /\ calls[c].sent[1].verb = "GET"
                 /\ calls[c].sent[1].url =
                      <<"http://kc", "admin/realms", a.realm, "users", a.userID>>

C14_Witness ==
  \E c \in Slots :
    /\ Done(c) /\ calls[c].op = "GetUserByID" /\ calls[c].b = "E"
    /\ calls[c].sent = << >> /\ calls[c].ret.status = 400
    /\ calls[c].ret.err = <<"could not get user by id", "userID shall not be empty">>

\* C15: in an operation that takes a query-parameter struct, when the
\* conversion of the parameters fails no request is sent and the operation
\* returns a non-nil error and no decoded data; a request that is sent
\* carries the converted parameters, so the conversion came first.
C15_ConversionFailureSendsNothing ==
  \A c \in Slots :
    (calls[c].pc # "idle" /\ calls[c].op \in ParamOps) =>
      LET qp == GetQueryParams(Args(calls[c].b).params)
      IN  IF qp.err # NilErr
            THEN /\ Done(c) /\ calls[c].sent = << >>
                 /\ calls[c].ret.err # NilErr
                 /\ calls[c].ret.result =
                      (IF calls[c].op = "GetUserCount" THEN "0" ELSE Nil)
            ELSE /\ Len(calls[c].sent) = 1
                 /\ calls[c].sent[1].query = qp.q

C15_Witness ==
  \E c \in Slots :
    /\ Done(c) /\ calls[c].op = "GetRealmRoles" /\ calls[c].b = "E"
    /\ GetQueryParams(Args(calls[c].b).params).err # NilErr
    /\ calls[c].sent = << >> /\ calls[c].ret.err # NilErr
    /\ calls[c].ret.result = Nil

====
